---- MODULE Spec2Model ----
(***************************************************************************)
(* A model of src/python/main.py, an implementation of SHA-256.            *)
(*                                                                         *)
(* Python integers are unbounded.  Two representations are used:           *)
(*   - a "word" is a pair <<hi, lo>> standing for hi * 2^16 + lo, with     *)
(*     0 <= lo < 2^16 and hi any natural number: it is a 32-bit word       *)
(*     exactly when hi < 2^16, and a sum that has not been reduced         *)
(*     modulo 2^32 has hi >= 2^16;                                         *)
(*   - a "big" integer is the set of the positions of its 1 bits           *)
(*     (position 0 is the least significant bit).                          *)
(* A bytes object is a sequence of numbers in 0..255.                      *)
(***************************************************************************)
EXTENDS Integers, Sequences, FiniteSets, TLC

BLOCK_SIZE == 512

WORD_SIZE == 32

\* ------------------------------------------------------------------ words

TwoTo16 == 2^16

Pow2(n) == 2^n

\* hi * 2^16 + lo brought to the form with lo < 2^16.
Norm(hi, lo) == <<hi + (lo \div TwoTo16), lo % TwoTo16>>

RECURSIVE BitOp(_, _, _, _)
\* Bitwise combination of two numbers of n bits, bit by bit; f[a][b] is the
\* result bit for the operand bits a and b.
BitOp(f, x, y, n) ==
  IF n = 0 THEN 0
  ELSE f[x % 2][y % 2] + 2 * BitOp(f, x \div 2, y \div 2, n - 1)

XorBit == [a \in 0..1 |-> [b \in 0..1 |-> (a + b) % 2]]
AndBit == [a \in 0..1 |-> [b \in 0..1 |-> a * b]]
OrBit  == [a \in 0..1 |-> [b \in 0..1 |-> IF a + b > 0 THEN 1 ELSE 0]]

\* Tables of the three operators on 4-bit digits.
XorTab == [a \in 0..15 |-> [b \in 0..15 |-> BitOp(XorBit, a, b, 4)]]
AndTab == [a \in 0..15 |-> [b \in 0..15 |-> BitOp(AndBit, a, b, 4)]]
OrTab  == [a \in 0..15 |-> [b \in 0..15 |-> BitOp(OrBit, a, b, 4)]]

\* A bitwise operator on two 16-bit numbers, by 4-bit digits.
Op16(tab, x, y) ==
    tab[x % 16][y % 16]
  + 16 * tab[(x \div 16) % 16][(y \div 16) % 16]
  + 256 * tab[(x \div 256) % 16][(y \div 256) % 16]
  + 4096 * tab[(x \div 4096) % 16][(y \div 4096) % 16]

\* Python's ^, & and | on two words.
Xor(x, y) == <<Op16(XorTab, x[1], y[1]), Op16(XorTab, x[2], y[2])>>
And(x, y) == <<Op16(AndTab, x[1], y[1]), Op16(AndTab, x[2], y[2])>>
Or(x, y)  == <<Op16(OrTab, x[1], y[1]), Op16(OrTab, x[2], y[2])>>

\* Python's + on two non-negative integers.
Add(x, y) == Norm(x[1] + y[1], x[2] + y[2])

\* x % 2**32
Mod32(x) == <<x[1] % TwoTo16, x[2]>>

\* x & WORD_MASK, WORD_MASK = 0xFFFFFFFF
MaskWord(x) == <<x[1] % TwoTo16, x[2]>>

\* x >> n for a word x and 0 <= n <= 32.
ShiftRight(x, n) ==
  IF n < 16
  THEN <<x[1] \div Pow2(n), (x[2] \div Pow2(n)) + (x[1] % Pow2(n)) * Pow2(16 - n)>>
  ELSE <<0, x[1] \div Pow2(n - 16)>>

\* (x << m) & WORD_MASK for a word x and 0 <= m <= 32.
ShiftLeftMasked(x, m) ==
  IF m < 16
  THEN <<(x[1] % Pow2(16 - m)) * Pow2(m) + (x[2] \div Pow2(16 - m)),
         (x[2] % Pow2(16 - m)) * Pow2(m)>>
  ELSE IF m < 32
  THEN <<(x[2] % Pow2(32 - m)) * Pow2(m - 16), 0>>
  ELSE <<0, 0>>

rotr(n, x) == Or(MaskWord(ShiftRight(x, n)), ShiftLeftMasked(x, WORD_SIZE - n))

shr(n, x) == MaskWord(ShiftRight(x, n))

\* ~x restricted to the low 32 bits; every use of ~x in the source is
\* and-ed with a word, which discards the bits above.
Invert(x) == <<TwoTo16 - 1 - (x[1] % TwoTo16), TwoTo16 - 1 - x[2]>>

ch(x, y, z) == MaskWord(Xor(And(x, y), And(Invert(x), z)))

maj(x, y, z) == MaskWord(Xor(Xor(And(x, y), And(x, z)), And(y, z)))

big_sigma_0(x) == MaskWord(Xor(Xor(rotr(2, x), rotr(13, x)), rotr(22, x)))

big_sigma_1(x) == MaskWord(Xor(Xor(rotr(6, x), rotr(11, x)), rotr(25, x)))

sigma_0(x) == MaskWord(Xor(Xor(rotr(7, x), rotr(18, x)), shr(3, x)))

sigma_1(x) == MaskWord(Xor(Xor(rotr(17, x), rotr(19, x)), shr(10, x)))

\* The word written as the two 16-bit halves of its hexadecimal form.
Wd(hi, lo) == <<hi, lo>>

K == <<
  Wd(\H428a, \H2f98), Wd(\H7137, \H4491), Wd(\Hb5c0, \Hfbcf), Wd(\He9b5, \Hdba5),
  Wd(\H3956, \Hc25b), Wd(\H59f1, \H11f1), Wd(\H923f, \H82a4), Wd(\Hab1c, \H5ed5),
  Wd(\Hd807, \Haa98), Wd(\H1283, \H5b01), Wd(\H2431, \H85be), Wd(\H550c, \H7dc3),
  Wd(\H72be, \H5d74), Wd(\H80de, \Hb1fe), Wd(\H9bdc, \H06a7), Wd(\Hc19b, \Hf174),
  Wd(\He49b, \H69c1), Wd(\Hefbe, \H4786), Wd(\H0fc1, \H9dc6), Wd(\H240c, \Ha1cc),
  Wd(\H2de9, \H2c6f), Wd(\H4a74, \H84aa), Wd(\H5cb0, \Ha9dc), Wd(\H76f9, \H88da),
  Wd(\H983e, \H5152), Wd(\Ha831, \Hc66d), Wd(\Hb003, \H27c8), Wd(\Hbf59, \H7fc7),
  Wd(\Hc6e0, \H0bf3), Wd(\Hd5a7, \H9147), Wd(\H06ca, \H6351), Wd(\H1429, \H2967),
  Wd(\H27b7, \H0a85), Wd(\H2e1b, \H2138), Wd(\H4d2c, \H6dfc), Wd(\H5338, \H0d13),
  Wd(\H650a, \H7354), Wd(\H766a, \H0abb), Wd(\H81c2, \Hc92e), Wd(\H9272, \H2c85),
  Wd(\Ha2bf, \He8a1), Wd(\Ha81a, \H664b), Wd(\Hc24b, \H8b70), Wd(\Hc76c, \H51a3),
  Wd(\Hd192, \He819), Wd(\Hd699, \H0624), Wd(\Hf40e, \H3585), Wd(\H106a, \Ha070),
  Wd(\H19a4, \Hc116), Wd(\H1e37, \H6c08), Wd(\H2748, \H774c), Wd(\H34b0, \Hbcb5),
  Wd(\H391c, \H0cb3), Wd(\H4ed8, \Haa4a), Wd(\H5b9c, \Hca4f), Wd(\H682e, \H6ff3),
  Wd(\H748f, \H82ee), Wd(\H78a5, \H636f), Wd(\H84c8, \H7814), Wd(\H8cc7, \H0208),
  Wd(\H90be, \Hfffa), Wd(\Ha450, \H6ceb), Wd(\Hbef9, \Ha3f7), Wd(\Hc671, \H78f2) >>

\* The value the module-level list H0 is created with.
H0_initial == <<
  Wd(\H6a09, \He667), Wd(\Hbb67, \Hae85), Wd(\H3c6e, \Hf372), Wd(\Ha54f, \Hf53a),
  Wd(\H510e, \H527f), Wd(\H9b05, \H688c), Wd(\H1f83, \Hd9ab), Wd(\H5be0, \Hcd19) >>

\* ------------------------------------------------------------ big integers

\* The bit of weight 2^b of the number n.
BitOf(n, b) == (n \div Pow2(b)) % 2

\* A number below 2^31 as a big integer.
BigOfNat(n) == {b \in 0..30 : BitOf(n, b) = 1}

RECURSIVE SumBits(_, _, _)
\* The number whose bits 0..n-1 are the bits base..base+n-1 of S (n >= 1),
\* computed by halves.
SumBits(S, base, n) ==
  IF n = 1 THEN (IF base \in S THEN 1 ELSE 0)
  ELSE SumBits(S, base, n \div 2)
       + Pow2(n \div 2) * SumBits(S, base + (n \div 2), n - (n \div 2))

\* A big integer below 2^31 as a number.
NatOfBig(S) == SumBits(S, 0, 31)

\* x << n, x >> n, x | y and x & (2**n - 1) on big integers.
ShiftLeftBig(S, n) == {p + n : p \in S}
ShiftRightBig(S, n) == {p - n : p \in {q \in S : q >= n}}
OrBig(S, T) == S \cup T
LowBits(S, n) == {p \in S : p < n}

Top(S) == IF S = {} THEN 0 ELSE CHOOSE p \in S : \A q \in S : q <= p

\* Whether adding S and T carries into position p: some lower position q
\* generates a carry and every position between q and p passes it on.
Carry(S, T, p) ==
  \E q \in 0..(p - 1) :
     /\ q \in S /\ q \in T
     /\ \A r \in (q + 1)..(p - 1) : r \in S \/ r \in T

\* x + y on big integers.
AddBig(S, T) ==
  {p \in 0..(Top(S \cup T) + 1) :
     ((IF p \in S THEN 1 ELSE 0) + (IF p \in T THEN 1 ELSE 0)
       + (IF Carry(S, T, p) THEN 1 ELSE 0)) % 2 = 1}

\* int.from_bytes(B, 'big')
IntFromBytes(B) ==
  {p \in 0..(8 * Len(B) - 1) : BitOf(B[Len(B) - (p \div 8)], p % 8) = 1}

\* x.to_bytes(n, 'big') when it does not raise.
IntToBytes(S, n) == [j \in 1..n |-> SumBits(S, 8 * (n - j), 8)]

\* A big integer below 2^32 as a word.
WordOfBig(S) == <<SumBits(S, 16, 16), SumBits(S, 0, 16)>>

\* A word (or an unreduced sum) as a big integer.
BigOfWord(x) == ShiftLeftBig(BigOfNat(x[1]), 16) \cup BigOfNat(x[2])

\* ------------------------------------------------------- hash computation

\* Lines 184-188: the first 16 schedule words are the words of the block.
BlockWords(Mi) ==
  [t \in 1..16 |-> WordOfBig(LowBits(ShiftRightBig(Mi, (15 - (t - 1)) * 32), WORD_SIZE))]

\* Line 190, for the 0-based index t of the source (W[t] is W[t + 1] here).
\* (The tests on Len are always true: as in Python, the operands of a sum
\* are computed before the sum.)
ScheduleWord(W, t) ==
  LET s1 == sigma_1(W[t - 2 + 1])
      s0 == sigma_0(W[t - 15 + 1])
  IN  IF Len(s1) = 2 /\ Len(s0) = 2
      THEN Mod32(Add(Add(s1, Mod32(W[t - 7 + 1])), Add(s0, Mod32(W[t - 16 + 1]))))
      ELSE s1

RECURSIVE Expand(_, _, _)
\* Lines 189-191 for the n indices t, ..., t+n-1 in this order, W holding
\* the t words before them; the range is worked through by halves.
\* (The test on Len is always true: it makes TLC finish the first half
\* before it starts the second.)
Expand(W, t, n) ==
  IF n = 1 THEN Append(W, ScheduleWord(W, t))
  ELSE LET first == Expand(W, t, n \div 2)
       IN  IF Len(first) = t + (n \div 2)
           THEN Expand(first, t + (n \div 2), n - (n \div 2))
           ELSE first

\* Lines 183-191: the message schedule of the block Mi.
\* (The test on Len is always true: the 16 words of the block are complete
\* before the first of the other words is computed.)
Schedule(Mi) ==
  LET first16 == BlockWords(Mi)
  IN  IF Len(first16) = 16 THEN Expand(first16, 16, 64 - 16) ELSE first16

\* Lines 204-213: one round on the working variables v = <<a, ..., h>>.
\* (The tests on Len are always true: as in Python, the operands of a sum
\* are computed before the sum, and T1 and T2 before the assignments.)
RoundStep(v, Kt, Wt) ==
  LET a == v[1]  b == v[2]  c == v[3]  d == v[4]
      e == v[5]  f == v[6]  g == v[7]  h == v[8]
      S1 == big_sigma_1(e)
      Ch == ch(e, f, g)
      S0 == big_sigma_0(a)
      Mj == maj(a, b, c)
      T1 == Mod32(Add(Add(Add(Add(h, S1), Ch), Kt), Wt))
      T2 == Mod32(Add(S0, Mj))
  IN  IF /\ Len(S1) = 2 /\ Len(Ch) = 2 /\ Len(S0) = 2 /\ Len(Mj) = 2
         /\ Len(T1) = 2 /\ Len(T2) = 2
      THEN <<Mod32(Add(T1, T2)), a, b, c, Mod32(Add(d, T1)), e, f, g>>
      ELSE v

RECURSIVE Rounds(_, _, _, _)
\* Lines 203-213: the n rounds t, ..., t+n-1 in this order on the working
\* variables v; the range is worked through by halves.
\* (The test on Len is always true: it makes TLC finish the first half
\* before it starts the second.)
Rounds(v, W, t, n) ==
  IF n = 1 THEN RoundStep(v, K[t + 1], W[t + 1])
  ELSE LET first == Rounds(v, W, t, n \div 2)
       IN  IF Len(first) = 8
           THEN Rounds(first, W, t + (n \div 2), n - (n \div 2))
           ELSE first

\* UpdateWord with the reduction modulo 2**32 forgotten.
UpdateWordNoMod(x, h) == Add(x, h)

\* Lines 215-222: H[j] = (x + H[j]) % 2**32
UpdateWord(x, h) == Mod32(Add(x, h))

\* Lines 181-222: the body of the loop over the blocks; the list H after it.
\* (The tests on Len are always false: as in the source, the block is
\* complete before its schedule, and the schedule before the rounds start.)
ProcessBlock(H, block) ==
  LET Mi == IntFromBytes(block)
      W  == Schedule(Mi)
      v  == Rounds(H, W, 0, 64)
  IN  IF Len(block) # BLOCK_SIZE \div 8 \/ Len(W) # 64 \/ Len(v) # 8 THEN H ELSE
      <<UpdateWord(v[1], H[1]), UpdateWord(v[2], H[2]),
        UpdateWord(v[3], H[3]), UpdateWord(v[4], H[4]),
        UpdateWord(v[5], H[5]), UpdateWord(v[6], H[6]),
        UpdateWord(v[7], H[7]), UpdateWord(v[8], H[8])>>

\* Lines 225-232: the digest, a big integer.
Concat(H) ==
  LET part(j) == ShiftLeftBig(BigOfWord(H[j]), 32 * (8 - j))
  IN  OrBig(OrBig(OrBig(OrBig(OrBig(OrBig(OrBig(part(1), part(2)), part(3)),
        part(4)), part(5)), part(6)), part(7)), part(8))

\* ---------------------------------------------------------- preprocessing

\* Whether x >= y, for big integers.
GeBig(S, T) ==
  LET D == (S \ T) \cup (T \ S)
  IN  D = {} \/ (\A q \in D \cap T : \E p \in D \cap S : p > q)

\* Line 111: l = len(M) * 8, from the big integer len(M).
pad_l(n) == ShiftLeftBig(n, 3)

\* Line 114: k = (448 - (l+1)) % BLOCK_SIZE.  The result depends on l only
\* through l % 512, the low 9 bits of l, and Python's % is non-negative here.
pad_k(l) == (448 - (NatOfBig(LowBits(l, 9)) + 1)) % BLOCK_SIZE

\* Lines 118-120: the integer padded_msg, from int.from_bytes(M, 'big').
pad_value(Mint, l, k) ==
  OrBig(OrBig(ShiftLeftBig(Mint, k + 1 + 64), ShiftLeftBig({0}, k + 64)), l)

\* Line 122: msglen = k + l + 1 + 448
pad_msglen(l, k) == AddBig(AddBig(AddBig(BigOfNat(k), l), {0}), BigOfNat(448))

\* Line 123: msglen // 8, the byte count handed to to_bytes.
pad_nbytes(l, k) == ShiftRightBig(pad_msglen(l, k), 3)

\* Whether x.to_bytes(n, 'big') raises OverflowError, n a big integer.
TooBig(S, n) == \E p \in S : GeBig(BigOfNat(p), ShiftLeftBig(n, 3))

\* Whether pad_message raises, for a message of len(M) = n and integer Mint.
pad_raises(Mint, n) ==
  LET l == pad_l(n)
      k == pad_k(l)
  IN  TooBig(pad_value(Mint, l, k), pad_nbytes(l, k))

\* pad_message(M) for a bytes object M written out.
pad_message(M) ==
  LET l == pad_l(BigOfNat(Len(M)))
      k == pad_k(l)
  IN  IntToBytes(pad_value(IntFromBytes(M), l, k), NatOfBig(pad_nbytes(l, k)))

RECURSIVE ParseLoop(_, _, _)
\* Lines 137-140: the iterations left of the loop; blk is inserted in front.
ParseLoop(x, blocks, left) ==
  IF left = 0 THEN blocks
  ELSE ParseLoop(ShiftRightBig(x, 512),
                 <<IntToBytes(LowBits(x, 512), 512 \div 8)>> \o blocks,
                 left - 1)

\* BlockCount rounding up instead of down.
BlockCountCeil(B) == (Len(B) * 8 + 511) \div 512

\* Line 132: N = (len(padded_msg) * 8) // 512
BlockCount(B) == (Len(B) * 8) \div 512

parse_msg_blocks(B) == ParseLoop(IntFromBytes(B), <<>>, BlockCount(B))

\* Whether parse_msg_blocks raises: its only operation that can is to_bytes.
parse_raises(B) ==
  \E n \in 0..(BlockCount(B) - 1) :
     TooBig(LowBits(ShiftRightBig(IntFromBytes(B), 512 * n), 512), BigOfNat(512 \div 8))

preprocess_msg(M) == parse_msg_blocks(pad_message(M))

RECURSIVE HashBlocks(_, _, _)
\* Lines 180-222: the loop over the blocks from index n on; the list H after it.
HashBlocks(H, blocks, n) ==
  IF n >= Len(blocks) \/ Len(H) # 8 THEN H
  ELSE HashBlocks(ProcessBlock(H, blocks[n + 1]), blocks, n + 1)

\* my_sha256(M) when the list H0 holds H: the digest it returns.
\* (The test on Len is always true: the loop is over before the digest is
\* assembled.)
my_sha256(H, M) ==
  LET final == HashBlocks(H, preprocess_msg(M), 0)
  IN  IF Len(final) = 8 THEN Concat(final) ELSE {}

\* ------------------------------------------------------------------ state

VARIABLES
  H0,          \* the module-level list H0; the local name H of
               \* sha256_hash_computation is bound to this same list (line 179)
  pc,          \* where the pipeline stands
  msg,         \* the message of the current call
  padded_msg,  \* what pad_message returned
  msg_blocks,  \* what parse_msg_blocks returned
  i,           \* the block loop's index (line 180)
  digest,      \* what my_sha256 returned last, a big integer
  raised,      \* whether the last operation raised an exception
  ncalls       \* the number of calls of my_sha256 made so far

vars == <<H0, pc, msg, padded_msg, msg_blocks, i, digest, raised, ncalls>>

\* -------------------------------------------------- the calls of my_sha256

MaxCalls == 2

Repeat(b, n) == [j \in 1..n |-> b]

\* b"abc"
MsgAbc == <<97, 98, 99>>

\* b"abcdbcdecdefdefgefghfghighijhijkijkljklmklmnlmnomnopnopq"
Msg56 == [j \in 1..56 |-> 97 + ((j - 1) \div 4) + ((j - 1) % 4)]

\* The messages hashed: the known vectors and the boundary lengths.
HashMsgs == {<<>>, MsgAbc, Msg56, Repeat(97, 55), Repeat(97, 64), Repeat(97, 119)}

Init ==
  /\ H0 = H0_initial
  /\ pc = "idle"
  /\ msg = <<>>
  /\ padded_msg = <<>>
  /\ msg_blocks = <<>>
  /\ i = 0
  /\ digest = {}
  /\ raised = FALSE
  /\ ncalls = 0

\* my_sha256(M) up to the loop of sha256_hash_computation: lines 239, 171-172,
\* 178-179.  H = H0 copies nothing.
Call(M) ==
  /\ pc \in {"idle", "done"}
  /\ ncalls < MaxCalls
  /\ ncalls' = ncalls + 1
  /\ msg' = M
  /\ padded_msg' = pad_message(M)
  /\ msg_blocks' = parse_msg_blocks(padded_msg')
  /\ i' = 0
  /\ pc' = "loop"
  /\ UNCHANGED <<H0, digest, raised>>

\* One iteration of the loop over the blocks: lines 180-222.  The assignments
\* to H[0..7] write the list H0.
Block ==
  /\ pc = "loop"
  /\ i < Len(msg_blocks)
  /\ H0' = ProcessBlock(H0, msg_blocks[i + 1])
  /\ i' = i + 1
  /\ UNCHANGED <<pc, msg, padded_msg, msg_blocks, digest, raised, ncalls>>

\* Lines 225-234 and 240-241: the digest is assembled and returned.
Return ==
  /\ pc = "loop"
  /\ i = Len(msg_blocks)
  /\ digest' = Concat(H0)
  /\ pc' = "done"
  /\ UNCHANGED <<H0, msg, padded_msg, msg_blocks, i, raised, ncalls>>

Next == (\E M \in HashMsgs : Call(M)) \/ Block \/ Return

Spec == Init /\ [][Next]_vars

\* ------------------------------------------- padding and parsing on their own

MaxLen == 130

\* The byte patterns of the messages padded: zero bytes (so that leading zero
\* bytes are there to lose), 0xff bytes, and changing bytes.
PadMsgs ==
  UNION {{Repeat(0, n), Repeat(255, n), [j \in 1..n |-> (37 * j) % 256]} : n \in 0..MaxLen}

PadInit ==
  /\ H0 = H0_initial
  /\ pc = "unpadded"
  /\ msg \in PadMsgs
  /\ padded_msg = <<>>
  /\ msg_blocks = <<>>
  /\ i = 0
  /\ digest = {}
  /\ raised = FALSE
  /\ ncalls = 0

\* padded_msg = pad_message(M), line 171.
Pad ==
  /\ pc = "unpadded"
  /\ IF pad_raises(IntFromBytes(msg), BigOfNat(Len(msg)))
     THEN raised' = TRUE /\ pc' = "failed" /\ UNCHANGED padded_msg
     ELSE raised' = FALSE /\ pc' = "padded" /\ padded_msg' = pad_message(msg)
  /\ UNCHANGED <<H0, msg, msg_blocks, i, digest, ncalls>>

\* msg_blocks = parse_msg_blocks(padded_msg), line 172.
Parse ==
  /\ pc = "padded"
  /\ IF parse_raises(padded_msg)
     THEN raised' = TRUE /\ pc' = "failed" /\ UNCHANGED msg_blocks
     ELSE raised' = FALSE /\ pc' = "blocked" /\ msg_blocks' = parse_msg_blocks(padded_msg)
  /\ UNCHANGED <<H0, msg, padded_msg, i, digest, ncalls>>

\* parse_msg_blocks called on its own, with the bytes of msg as its argument
\* padded_msg.
ParseDirect ==
  /\ pc = "unpadded"
  /\ padded_msg' = msg
  /\ IF parse_raises(msg)
     THEN raised' = TRUE /\ pc' = "failed" /\ UNCHANGED msg_blocks
     ELSE raised' = FALSE /\ pc' = "parsed" /\ msg_blocks' = parse_msg_blocks(msg)
  /\ UNCHANGED <<H0, msg, i, digest, ncalls>>

PadNext == Pad \/ Parse \/ ParseDirect

SpecPad == PadInit /\ [][PadNext]_vars

\* ------------------------------------- padding of messages of 2^61 bytes or so

\* A message too long to write out is given by len(M) and
\* int.from_bytes(M, 'big'), both big integers: zero bytes followed by a few
\* bytes that are written.  What pad_message returns is given the same way.

LongSpread == 63

\* 2^61 - 32
LongBase == 5..60

LongLens == {AddBig(LongBase, BigOfNat(d)) : d \in 0..LongSpread}

LongMsgs == [len : LongLens, int : {{}, IntFromBytes(MsgAbc)}]

LongInit ==
  /\ H0 = H0_initial
  /\ pc = "unpadded"
  /\ msg \in LongMsgs
  /\ padded_msg = [len |-> {}, int |-> {}]
  /\ msg_blocks = <<>>
  /\ i = 0
  /\ digest = {}
  /\ raised = FALSE
  /\ ncalls = 0

\* pad_message(M), lines 111-123.
PadLong ==
  /\ pc = "unpadded"
  /\ LET l == pad_l(msg.len)
         k == pad_k(l)
     IN  IF pad_raises(msg.int, msg.len)
         THEN raised' = TRUE /\ pc' = "failed" /\ UNCHANGED padded_msg
         ELSE /\ raised' = FALSE
              /\ pc' = "padded"
              /\ padded_msg' = [len |-> pad_nbytes(l, k), int |-> pad_value(msg.int, l, k)]
  /\ UNCHANGED <<H0, msg, msg_blocks, i, digest, ncalls>>

LongNext == PadLong

SpecLong == LongInit /\ [][LongNext]_vars

\* ------------------------------------------------- FIPS 180-4, the reference

\* The k of FIPS 180-4 section 5.1.1 for a message of l bits.
RefK(l) == CHOOSE k \in 0..511 : (l + 1 + k) % 512 = 448

\* l < 2^31 in 8 bytes, most significant first.
RefLength(l) == Repeat(0, 4) \o [j \in 1..4 |-> (l \div Pow2(8 * (4 - j))) % 256]

\* The padded message of FIPS 180-4: M, the bit 1, k bits 0, the length.
RefPad(M) ==
  M \o <<128>> \o Repeat(0, (RefK(8 * Len(M)) - 7) \div 8) \o RefLength(8 * Len(M))

\* The blocks in list order, laid end to end.
RECURSIVE Flatten(_)
Flatten(blocks) ==
  IF blocks = <<>> THEN <<>> ELSE Head(blocks) \o Flatten(Tail(blocks))

\* The padded message with its last 64 bits, then its trailing zero bytes,
\* then the byte 0x80 (the bit 1 and seven of the k zero bits) removed.
Unpad(P) ==
  LET body == SubSeq(P, 1, Len(P) - 8)
      ones == {j \in 1..Len(body) : body[j] # 0}
      last == CHOOSE j \in ones : \A q \in ones : q <= j
  IN  IF ones = {} THEN <<>> ELSE SubSeq(body, 1, last - 1)

\* The n-th 64-byte block of the padded message P, n = 1, 2, ...
RefBlock(P, n) == SubSeq(P, 64 * (n - 1) + 1, 64 * n)

\* The 16 words of a block, from its bytes.
RefWords(B) ==
  [t \in 1..16 |-> <<256 * B[4 * t - 3] + B[4 * t - 2], 256 * B[4 * t - 1] + B[4 * t]>>]

\* FIPS 180-4 section 6.2.2 step 1, W_t for t >= 16 (W[t + 1] here).
RefNextWord(W) ==
  LET t  == Len(W)
      s1 == sigma_1(W[t - 1])
      s0 == sigma_0(W[t - 14])
  IN  IF Len(s1) = 2 /\ Len(s0) = 2
      THEN Mod32(Add(Add(Add(s1, W[t - 6]), s0), W[t - 15]))
      ELSE s1

RECURSIVE RefExtend(_, _)
\* W with n more words; the test on Len orders TLC's evaluation.
RefExtend(W, n) ==
  IF n = 1 THEN Append(W, RefNextWord(W))
  ELSE LET first == RefExtend(W, n \div 2)
       IN  IF Len(first) > 0 THEN RefExtend(first, n - (n \div 2)) ELSE first

\* FIPS 180-4 section 6.2.2 step 3, round t on <<a, ..., h>>.
RefRound(v, W, t) ==
  LET S1 == big_sigma_1(v[5])
      Ch == ch(v[5], v[6], v[7])
      S0 == big_sigma_0(v[1])
      Mj == maj(v[1], v[2], v[3])
      T1 == Mod32(Add(Add(Add(Add(v[8], S1), Ch), K[t + 1]), W[t + 1]))
      T2 == Mod32(Add(S0, Mj))
  IN  IF /\ Len(S1) = 2 /\ Len(Ch) = 2 /\ Len(S0) = 2 /\ Len(Mj) = 2
         /\ Len(T1) = 2 /\ Len(T2) = 2
      THEN <<Mod32(Add(T1, T2)), v[1], v[2], v[3], Mod32(Add(v[4], T1)), v[5], v[6], v[7]>>
      ELSE v

RECURSIVE RefRounds(_, _, _, _)
\* Rounds t, ..., t+n-1; the test on Len orders TLC's evaluation.
RefRounds(v, W, t, n) ==
  IF n = 1 THEN RefRound(v, W, t)
  ELSE LET first == RefRounds(v, W, t, n \div 2)
       IN  IF Len(first) = 8
           THEN RefRounds(first, W, t + (n \div 2), n - (n \div 2))
           ELSE first

\* FIPS 180-4 section 6.2.2: the hash value after one more block.
RefCompress(H, B) ==
  LET W == RefExtend(RefWords(B), 48)
      v == IF Len(W) = 64 THEN RefRounds(H, W, 0, 64) ELSE H
  IN  IF Len(v) # 8 THEN H
      ELSE [j \in 1..8 |-> Mod32(Add(H[j], v[j]))]

RECURSIVE RefChain(_, _, _)
\* The hash value after the blocks n, n+1, ... of the padded message P; the
\* test on Len orders TLC's evaluation.
RefChain(H, P, n) ==
  IF 64 * n > Len(P) THEN H
  ELSE LET next == RefCompress(H, RefBlock(P, n))
       IN  IF Len(next) = 8 THEN RefChain(next, P, n + 1) ELSE next

\* Eight words as a 256-bit big integer, the first word most significant.
RefDigest(H) ==
  {p \in 0..255 :
     LET w == H[8 - (p \div 32)]
         q == p % 32
     IN  IF q < 16 THEN BitOf(w[2], q) = 1 ELSE BitOf(w[1], q - 16) = 1}

\* FIPS 180-4 SHA-256 of the message M; the initial hash value of section
\* 5.3.3 is the value H0 is created with.
RefSha256(M) ==
  LET final == RefChain(H0_initial, RefPad(M), 1)
  IN  IF Len(final) = 8 THEN RefDigest(final) ELSE {}

\* The digests of the FIPS 180-4 / NIST examples.
DigestEmpty == RefDigest(<<
  Wd(\He3b0, \Hc442), Wd(\H98fc, \H1c14), Wd(\H9afb, \Hf4c8), Wd(\H996f, \Hb924),
  Wd(\H27ae, \H41e4), Wd(\H649b, \H934c), Wd(\Ha495, \H991b), Wd(\H7852, \Hb855) >>)

DigestAbc == RefDigest(<<
  Wd(\Hba78, \H16bf), Wd(\H8f01, \Hcfea), Wd(\H4141, \H40de), Wd(\H5dae, \H2223),
  Wd(\Hb003, \H61a3), Wd(\H9617, \H7a9c), Wd(\Hb410, \Hff61), Wd(\Hf200, \H15ad) >>)

Digest56 == RefDigest(<<
  Wd(\H248d, \H6a61), Wd(\Hd206, \H38b8), Wd(\He5c0, \H2693), Wd(\H0c3e, \H6039),
  Wd(\Ha33c, \He459), Wd(\H64ff, \H2167), Wd(\Hf6ec, \Hedd4), Wd(\H19db, \H06c1) >>)

\* ----------------------------------------------------------------- claims

\* A word of 32 bits.
IsWord(x) == x[1] \in 0..(TwoTo16 - 1) /\ x[2] \in 0..(TwoTo16 - 1)

\* C1: every call my_sha256(M) returns the digest that the first call of a
\* fresh process returns for M, whatever calls came before it.
C1_SameDigestOnEveryCall ==
  pc = "done" => digest = my_sha256(H0_initial, msg)

\* C2: my_sha256(M) is the FIPS 180-4 SHA-256 digest of M: for b"", b"abc"
\* and the 56-byte example the published digest, and for these and the
\* messages of 55, 64 and 119 bytes the digest of the reference.
C2_DigestIsFips ==
  pc = "done" =>
    /\ digest = RefSha256(msg)
    /\ msg = <<>> => digest = DigestEmpty
    /\ msg = MsgAbc => digest = DigestAbc
    /\ msg = Msg56 => digest = Digest56

\* C3: pad_message(M) has l + 1 + k + 64 bits, k the smallest non-negative
\* integer with l + 1 + k = 448 mod 512: the smallest multiple of 512 that is
\* at least l + 1 + 64.
C3_PaddedLength ==
  pc = "padded" =>
    LET l    == 8 * Len(msg)
        bits == 8 * Len(padded_msg)
    IN  /\ bits = l + 1 + RefK(l) + 64
        /\ bits % 512 = 0
        /\ bits >= l + 1 + 64
        /\ bits - 512 < l + 1 + 64

\* C4: pad_message(M) is the bits of M, a bit 1, k bits 0 and l in 64 bits,
\* and M is what is left of it without the length, the zero bits and the
\* bit 1.
C4_PaddedContent ==
  pc = "padded" =>
    /\ padded_msg = RefPad(msg)
    /\ Unpad(padded_msg) = msg

\* C5: the blocks of parse_msg_blocks(pad_message(M)) have 64 bytes each and,
\* laid end to end in list order, are pad_message(M) byte for byte.
C5_BlocksCoverPadded ==
  pc = "blocked" =>
    /\ \A n \in 1..Len(msg_blocks) : Len(msg_blocks[n]) = 64
    /\ Flatten(msg_blocks) = padded_msg

\* C6: the list H0 holds the values it was created with after any sequence
\* of calls.  (No statement of the source assigns K or one of its elements,
\* which is why K is a definition and not a variable here.)
C6_TablesUnchanged == H0 = H0_initial

\* C7: for a message of l >= 2^64 bits pad_message fails and returns no
\* padded message.
C7_LongMessageRejected ==
  (pc \in {"padded", "failed"} /\ GeBig(pad_l(msg.len), {64})) => raised

\* C8: parse_msg_blocks fails when the bit length of its argument is not a
\* multiple of 512, instead of returning blocks.
C8_PartialBlockRejected ==
  (pc \in {"blocked", "parsed", "failed"} /\ (8 * Len(padded_msg)) % 512 # 0) => raised

\* C9: after every block's update, and after any earlier calls, each of the
\* eight hash-state words is in 0..2^32-1, and the digest returned is
\* H[0] || ... || H[7], first word most significant, a number below 2^256.
C9_WordsAndDigestInRange ==
  /\ Len(H0) = 8
  /\ \A j \in 1..8 : IsWord(H0[j])
  /\ pc = "done" => (digest \subseteq 0..255 /\ digest = RefDigest(H0))

\* C9 happens: a second call, of a message of two blocks, has returned.
C9_Witness ==
  pc = "done" /\ ncalls = 2 /\ Len(msg_blocks) = 2 /\ H0 # H0_initial

\* C10: preprocess_msg(M) returns floor((l + 64) / 512) + 1 blocks of 64
\* bytes which, laid end to end, are the padded message of FIPS 180-4.
C10_PipelineBlocks ==
  pc = "blocked" =>
    /\ Len(msg_blocks) = ((8 * Len(msg) + 64) \div 512) + 1
    /\ \A n \in 1..Len(msg_blocks) : Len(msg_blocks[n]) = 64
    /\ Flatten(msg_blocks) = RefPad(msg)

\* C10 happens: a message of 120 bytes, which needs a third block, and one of
\* 56 bytes, the shortest that needs a second.
C10_Witness ==
  /\ pc = "blocked"
  /\ \/ Len(msg) = 120 /\ Len(msg_blocks) = 3
     \/ Len(msg) = 56 /\ Len(msg_blocks) = 2 /\ msg[1] = 0

====
